---- MODULE Spec2Model ----
(***************************************************************************)
(* Model of the document ingestion and context-retrieval pipeline of       *)
(* "Task 2/app.py": DuckDuckGoSearch, DocumentLoader, HuggingFaceQA,       *)
(* GeminiQA and the Streamlit script that drives them.                     *)
(*                                                                         *)
(* Texts are TLA+ strings; Len, \o and SubSeq act on them as len(), + and  *)
(* slicing act on Python str.  An absent object (Python None) is the       *)
(* string "None" for the embeddings handle and a record with               *)
(* present = FALSE for the vector store.                                   *)
(***************************************************************************)
EXTENDS Integers, Sequences, FiniteSets, TLC

VARIABLES current_document, document_source, vector_store, embeddings,
          temp_files, last, ui, cli, t3

vars == <<current_document, document_source, vector_store, embeddings,
          temp_files, last, ui, cli, t3>>

(***************************************************************************)
(* Bounds of the model.                                                    *)
(***************************************************************************)
\* largest number of content blocks a structured file parses into
MaxBlocks == 4
\* largest number of results the search provider returns
MaxResults == 2
\* largest number of temporary files left on disk before uploads stop
MaxTempFiles == 1
\* largest number of rounds of the question generator
MaxRounds == 2
\* largest number of predictions of one interactive session
MaxPredictions == 2
\* largest number of lines of a file of reviews
MaxLines == 3

(***************************************************************************)
(* Program constants.                                                      *)
(***************************************************************************)
\* app.py:121  len(text_content) > 100
MIN_CONTENT == 100
\* app.py:168  similarity_search(query, k=3)
TOP_K == 3
\* app.py:163  max_chars: int = 8000
DEFAULT_MAX_CHARS == 8000

(***************************************************************************)
(* Python string helpers.                                                  *)
(***************************************************************************)
RECURSIVE Rep(_, _)
\* c * n
Rep(c, n) == IF n <= 0 THEN "" ELSE c \o Rep(c, n - 1)

RECURSIVE Join(_, _)
\* sep.join(parts)
Join(parts, sep) ==
    IF Len(parts) = 0 THEN ""
    ELSE IF Len(parts) = 1 THEN parts[1]
    ELSE parts[1] \o sep \o Join(Tail(parts), sep)

UpperLetters == "ABCDEFGHIJKLMNOPQRSTUVWXYZ"

LowerLetters == "abcdefghijklmnopqrstuvwxyz"

\* the lower-case letter of every upper-case letter
LowerTable ==
    [c \in {SubSeq(UpperLetters, i, i) : i \in 1..Len(UpperLetters)} |->
        LET i == CHOOSE i \in 1..Len(UpperLetters) : SubSeq(UpperLetters, i, i) = c
        IN  SubSeq(LowerLetters, i, i)]

\* c.lower() of one character
LowerChar(c) == IF c \in DOMAIN LowerTable THEN LowerTable[c] ELSE c

RECURSIVE Lower(_)
\* s.lower()
Lower(s) ==
    IF Len(s) = 0 THEN ""
    ELSE LowerChar(SubSeq(s, 1, 1)) \o Lower(SubSeq(s, 2, Len(s)))

Whitespace == {" ", "\t", "\n", "\r"}

RECURSIVE LStrip(_)
LStrip(s) ==
    IF Len(s) > 0 /\ SubSeq(s, 1, 1) \in Whitespace
    THEN LStrip(SubSeq(s, 2, Len(s))) ELSE s

RECURSIVE RStrip(_)
RStrip(s) ==
    IF Len(s) > 0 /\ SubSeq(s, Len(s), Len(s)) \in Whitespace
    THEN RStrip(SubSeq(s, 1, Len(s) - 1)) ELSE s

\* s.strip()
Strip(s) == RStrip(LStrip(s))

\* s[:n], for negative n too
PyPrefix(s, n) ==
    IF n >= 0 THEN SubSeq(s, 1, IF n < Len(s) THEN n ELSE Len(s))
    ELSE SubSeq(s, 1, IF Len(s) + n > 0 THEN Len(s) + n ELSE 0)

\* s.endswith(suffix)
EndsWith(s, suffix) ==
    /\ Len(suffix) <= Len(s)
    /\ SubSeq(s, Len(s) - Len(suffix) + 1, Len(s)) = suffix

RECURSIVE LastDot(_, _)
\* index of the last "." of s at or before position i, 0 when there is none
LastDot(s, i) ==
    IF i = 0 THEN 0
    ELSE IF SubSeq(s, i, i) = "." THEN i
    ELSE LastDot(s, i - 1)

\* os.path.splitext(name)[1]
splitext_ext(name) ==
    LET d == LastDot(name, Len(name))
    IN  IF d <= 1 THEN "" ELSE SubSeq(name, d, Len(name))

(***************************************************************************)
(* Outcome of a call: the object after it, the files on disk after it, and *)
(* either a returned value or a raised exception with its message.         *)
(***************************************************************************)
Return(self, fs, value, info) ==
    [self |-> self, fs |-> fs, raised |-> FALSE, ret |-> value, info |-> info]

Raise(self, fs, msg, info) ==
    [self |-> self, fs |-> fs, raised |-> TRUE, ret |-> msg, info |-> info]

\* what a call did on the way: caught tells that a collaborator raised and
\* the call caught the exception, built that FAISS.from_documents returned an
\* index, parsed that the parser returned (its text is text_content),
\* temp_path names the temporary file the call created (0: none), calls counts
\* the invocations of the search provider, the QA model or the generative API,
\* results is what the search provider returned, msg the message of the
\* exception the QA model or the generative API raised
NoInfo == [caught |-> FALSE, built |-> FALSE, parsed |-> FALSE,
           text_content |-> "", temp_path |-> 0, loader |-> "None",
           calls |-> 0, results |-> <<>>, msg |-> ""]

(***************************************************************************)
(* DocumentLoader                                                          *)
(***************************************************************************)
NoStore == [present |-> FALSE, docs |-> <<>>]

\* FAISS.from_documents(docs, embeddings)
FAISS_from_documents(docs) == [present |-> TRUE, docs |-> docs]

default_documents ==
    [solar_energy |-> "Solar energy is one of the most abundant renewable resources available today. It is generated by converting sunlight into electricity. Solar panels, also known as photovoltaic panels, capture sunlight and convert it into usable electricity through the photovoltaic effect. This clean energy source produces no emissions during operation and is becoming increasingly cost-effective. Solar power can be used in large utility-scale installations or small residential systems, making it versatile for various applications.",
     ai_ethics |-> "AI Ethics encompasses the moral principles and guidelines governing the development and use of artificial intelligence systems. Key concerns include privacy, bias and fairness, transparency, accountability, and the impact on employment. As AI becomes more integrated into daily life, ensuring these systems are designed with ethical considerations becomes increasingly important. Some propose regulatory frameworks while others advocate for industry self-regulation. The field continues to evolve as new AI capabilities emerge.",
     renewable_energy |-> "Renewable energy comes from naturally replenished sources such as sunlight, wind, water, and geothermal heat. Unlike fossil fuels, renewable energy sources won't deplete over time. Major types include solar, wind, hydroelectric, biomass, and geothermal power. The renewable energy sector is growing rapidly worldwide as countries seek to reduce carbon emissions and combat climate change. Technological advances continue to make renewable energy increasingly cost-competitive with conventional energy sources."]

\* DocumentLoader.__init__
DocumentLoader_init ==
    [current_document |-> "", document_source |-> "None",
     vector_store |-> NoStore, embeddings |-> "None"]

\* the DocumentLoader object held in the variables
Self ==
    [current_document |-> current_document, document_source |-> document_source,
     vector_store |-> vector_store, embeddings |-> embeddings]

\* load_from_text leaving the source label as it was
load_from_text_unlabelled(self, fs, text) ==
    Return([self EXCEPT !.current_document = text], fs, text, NoInfo)

load_from_text(self, fs, text) ==
    Return([self EXCEPT !.current_document = text,
                        !.document_source = "User input"],
           fs, text, NoInfo)

\* tempfile.NamedTemporaryFile(delete=False, ...).name: a path not on disk yet
NewTempPath(fs) == CHOOSE p \in 1..(Cardinality(fs) + 1) : p \notin fs

\* the loader class chosen for temp_path (app.py:107-112)
ChooseLoader(suffix) ==
    IF EndsWith(suffix, ".pdf") THEN "UnstructuredPDFLoader"
    ELSE IF EndsWith(suffix, ".docx") THEN "UnstructuredWordDocumentLoader"
    ELSE "TextLoader"

\* is_substantial taking a text of exactly MIN_CONTENT characters as substantial
is_substantial_inclusive(text_content) == Len(text_content) >= MIN_CONTENT

\* app.py:121, "if content is substantial"
is_substantial(text_content) == Len(text_content) > MIN_CONTENT

\* app.py:106-131, the inner try ... finally around parsing and indexing;
\* fail names the collaborator that raises when it is called
load_from_file_parse(self, fs, file, fail, msg, temp_path) ==
    LET info0   == [NoInfo EXCEPT !.temp_path = temp_path,
                        !.loader = ChooseLoader(splitext_ext(file.name))]
        removed == fs \ {temp_path}
    IN  IF fail = "parse" THEN Raise(self, removed, msg, info0)
        ELSE
          LET text_content == Join(file.blocks, "\n\n")
              info1 == [info0 EXCEPT !.parsed = TRUE,
                                     !.text_content = text_content]
          IN  IF is_substantial(text_content)
              THEN IF fail = "embed" THEN Raise(self, removed, msg, info1)
                   ELSE IF fail = "index"
                   THEN Raise([self EXCEPT !.embeddings = "HuggingFaceEmbeddings"],
                              removed, msg, info1)
                   ELSE Return([self EXCEPT
                                   !.embeddings = "HuggingFaceEmbeddings",
                                   !.vector_store = FAISS_from_documents(file.blocks),
                                   !.current_document = text_content,
                                   !.document_source = file.name],
                               removed, text_content,
                               [info1 EXCEPT !.built = TRUE])
              ELSE Return([self EXCEPT !.current_document = text_content,
                                       !.document_source = file.name],
                          removed, text_content, info1)

\* app.py:92-133, the body of the outer try
load_from_file_try(self, fs, file, fail, msg) ==
    IF EndsWith(file.name, ".txt") \/ EndsWith(file.name, ".md")
    THEN IF fail = "read" THEN Raise(self, fs, msg, NoInfo)
         ELSE Return([self EXCEPT !.current_document = file.text,
                                  !.document_source = file.name],
                     fs, file.text, NoInfo)
    ELSE LET temp_path == NewTempPath(fs)
             created   == fs \cup {temp_path}
         IN  IF fail \in {"read", "write"}
             THEN Raise(self, created, msg,
                        [NoInfo EXCEPT !.temp_path = temp_path])
             ELSE load_from_file_parse(self, created, file, fail, msg, temp_path)

\* load_from_file without its except clause
load_from_file_uncaught(self, fs, file, fail, msg) ==
    load_from_file_try(self, fs, file, fail, msg)

\* app.py:90-138
load_from_file(self, fs, file, fail, msg) ==
    LET r == load_from_file_try(self, fs, file, fail, msg)
    IN  IF r.raised
        THEN Return(r.self, r.fs, "File loading error: " \o r.ret,
                    [r.info EXCEPT !.caught = TRUE])
        ELSE r

load_from_example(self, fs, example_key) ==
    IF example_key \in DOMAIN default_documents
    THEN Return([self EXCEPT
                    !.current_document = default_documents[example_key],
                    !.document_source = "Example: " \o example_key],
                fs, default_documents[example_key], NoInfo)
    ELSE Return(self, fs, "Example not found. Please select a valid example.",
                NoInfo)

(***************************************************************************)
(* DuckDuckGoSearch                                                        *)
(***************************************************************************)
\* result.get(key, default) on one search result
DictGet(result, key, default) ==
    IF key \in DOMAIN result THEN result[key] ELSE default

\* one formatted result whose missing fields are left empty
FormatResult_bare(result) ==
    LET title   == DictGet(result, "title", "")
        snippet == DictGet(result, "body", DictGet(result, "snippet", ""))
        url     == DictGet(result, "href", "")
    IN  title \o "\n" \o "Summary: " \o snippet \o "\n" \o "URL: " \o url \o "\n"

\* app.py:51-55, one formatted result
FormatResult(result) ==
    LET title   == DictGet(result, "title", "No title available")
        snippet == DictGet(result, "body",
                           DictGet(result, "snippet", "No description available"))
        url     == DictGet(result, "href", "No link available")
    IN  title \o "\n" \o "Summary: " \o snippet \o "\n" \o "URL: " \o url \o "\n"

\* the body of the try joining whatever the provider returned
search_try_joining(query, max_results, provider) ==
    IF provider.fails
    THEN [raised |-> TRUE, ret |-> provider.msg, calls |-> 1, results |-> <<>>]
    ELSE LET search_results == provider.results
         IN  [raised |-> FALSE,
              ret |-> Join([i \in 1..Len(search_results) |->
                               FormatResult(search_results[i])], "\n\n"),
              calls |-> 1, results |-> search_results]

\* app.py:30-57, the body of the try; provider is what self.ddgs.text does,
\* called once at app.py:32-38
search_try(query, max_results, provider) ==
    IF provider.fails
    THEN [raised |-> TRUE, ret |-> provider.msg, calls |-> 1, results |-> <<>>]
    ELSE LET search_results == provider.results
         IN  IF Len(search_results) = 0
             THEN [raised |-> FALSE,
                   ret |-> "No results found. Try modifying your search query.",
                   calls |-> 1, results |-> search_results]
             ELSE [raised |-> FALSE,
                   ret |-> Join([i \in 1..Len(search_results) |->
                                    FormatResult(search_results[i])], "\n\n"),
                   calls |-> 1, results |-> search_results]

\* DuckDuckGoSearch.search, app.py:29-63
search(query, max_results, provider) ==
    LET r == search_try(query, max_results, provider)
    IN  IF r.raised
        THEN [raised |-> FALSE, caught |-> TRUE, ret |-> "Search error: " \o r.ret,
              calls |-> r.calls, results |-> r.results]
        ELSE [raised |-> FALSE, caught |-> FALSE, ret |-> r.ret,
              calls |-> r.calls, results |-> r.results]

\* app.py:151-157, the body of the try
load_from_web_search_try(self, fs, query, max_results, provider) ==
    LET s == search(query, max_results, provider)
        info == [NoInfo EXCEPT !.caught = s.caught, !.calls = s.calls,
                               !.results = s.results]
    IN  IF s.raised THEN Raise(self, fs, s.ret, info)
        ELSE Return([self EXCEPT
                        !.current_document = s.ret,
                        !.document_source = "DuckDuckGo Search" \o ": " \o query],
                    fs, s.ret, info)

\* app.py:149-161
load_from_web_search(self, fs, query, max_results, provider) ==
    LET r == load_from_web_search_try(self, fs, query, max_results, provider)
    IN  IF r.raised
        THEN Return(r.self, r.fs, "Web search error: " \o r.ret,
                    [r.info EXCEPT !.caught = TRUE])
        ELSE r

(***************************************************************************)
(* Context selection                                                       *)
(***************************************************************************)
\* the embedding provider: a fixed map from a text to a point (here a point
\* of the integer line, read off the first character of the text)
Ord == [c \in {"a", "b", "c", "d", "e", "f"} |->
          CASE c = "a" -> 1 [] c = "b" -> 2 [] c = "c" -> 3
            [] c = "d" -> 4 [] c = "e" -> 5 [] c = "f" -> 6]

Embed(text) ==
    IF Len(text) = 0 THEN 0
    ELSE LET c == SubSeq(text, 1, 1)
         IN  IF c \in DOMAIN Ord THEN Ord[c] ELSE 0

Distance(x, y) == IF x >= y THEN x - y ELSE y - x

\* the passage of docs nearest to query among the positions in rest
Nearest(docs, query, rest) ==
    CHOOSE i \in rest : \A j \in rest :
        LET di == Distance(Embed(query), Embed(docs[i]))
            dj == Distance(Embed(query), Embed(docs[j]))
        IN  di < dj \/ (di = dj /\ i <= j)

RECURSIVE Ranked(_, _, _, _)
\* the k nearest positions of rest, nearest first
Ranked(docs, query, rest, k) ==
    IF k = 0 \/ rest = {} THEN <<>>
    ELSE LET n == Nearest(docs, query, rest)
         IN  <<n>> \o Ranked(docs, query, rest \ {n}, k - 1)

\* vector_store.similarity_search(query, k): page_content of the hits
similarity_search(store, query, k) ==
    LET order == Ranked(store.docs, query, 1..Len(store.docs), k)
    IN  [i \in 1..Len(order) |-> store.docs[order[i]]]

\* full_document_context truncating a text of exactly max_chars characters
full_document_context_inclusive(self, max_chars) ==
    IF Len(self.current_document) >= max_chars
    THEN PyPrefix(self.current_document, max_chars) \o "..."
    ELSE self.current_document

\* app.py:179-182, the raw-text fallback
full_document_context(self, max_chars) ==
    IF Len(self.current_document) > max_chars
    THEN PyPrefix(self.current_document, max_chars) \o "..."
    ELSE self.current_document

\* vector_context_try joining the passages in document order
vector_context_try_unranked(self, query, max_chars, search_fails, msg) ==
    IF search_fails THEN [raised |-> TRUE, ret |-> msg, hits |-> <<>>]
    ELSE LET docs == similarity_search(self.vector_store, query, TOP_K)
             relevant_text == Join(SubSeq(self.vector_store.docs, 1, Len(docs)), "\n\n")
         IN  [raised |-> FALSE, hits |-> docs,
              ret |-> IF Len(relevant_text) > max_chars
                      THEN PyPrefix(relevant_text, max_chars) \o "..."
                      ELSE relevant_text]

\* app.py:166-174, the body of the try
vector_context_try(self, query, max_chars, search_fails, msg) ==
    IF search_fails THEN [raised |-> TRUE, ret |-> msg, hits |-> <<>>]
    ELSE LET docs == similarity_search(self.vector_store, query, TOP_K)
             relevant_text == Join(docs, "\n\n")
         IN  [raised |-> FALSE, hits |-> docs,
              ret |-> IF Len(relevant_text) > max_chars
                      THEN PyPrefix(relevant_text, max_chars) \o "..."
                      ELSE relevant_text]

\* get_relevant_context falling back to the whole document after a failed search
get_relevant_context_whole(self, query, max_chars, search_fails, msg) ==
    IF self.vector_store.present /\ self.embeddings # "None"
    THEN LET r == vector_context_try(self, query, max_chars, search_fails, msg)
         IN  IF r.raised
             THEN [raised |-> FALSE, searched |-> TRUE, search_raised |-> TRUE,
                   hits |-> <<>>, ret |-> self.current_document]
             ELSE [raised |-> FALSE, searched |-> TRUE, search_raised |-> FALSE,
                   hits |-> r.hits, ret |-> r.ret]
    ELSE [raised |-> FALSE, searched |-> FALSE, search_raised |-> FALSE,
          hits |-> <<>>, ret |-> self.current_document]

\* app.py:163-182; searched tells whether similarity_search was called
get_relevant_context(self, query, max_chars, search_fails, msg) ==
    IF self.vector_store.present /\ self.embeddings # "None"
    THEN LET r == vector_context_try(self, query, max_chars, search_fails, msg)
         IN  IF r.raised
             THEN [raised |-> FALSE, searched |-> TRUE, search_raised |-> TRUE,
                   hits |-> <<>>, ret |-> full_document_context(self, max_chars)]
             ELSE [raised |-> FALSE, searched |-> TRUE, search_raised |-> FALSE,
                   hits |-> r.hits, ret |-> r.ret]
    ELSE [raised |-> FALSE, searched |-> FALSE, search_raised |-> FALSE,
          hits |-> <<>>, ret |-> full_document_context(self, max_chars)]

(***************************************************************************)
(* Answer backends                                                         *)
(***************************************************************************)
\* app.py:205-211; init_fails: get_hf_pipeline() raises
HuggingFaceQA_init(init_fails) == IF init_fails THEN "None" ELSE "pipeline"

\* app.py:219-226, the body of the try; model is what self.qa_pipeline does
\* calls counts the invocations of self.qa_pipeline, app.py:220
HuggingFaceQA_answer_question_try(pipe, question, context, model) ==
    IF pipe = "None"
    THEN [raised |-> FALSE, called |-> FALSE, calls |-> 0,
          ret |-> [answer |-> "QA pipeline not initialized", score |-> 0]]
    ELSE IF model.fails
    THEN [raised |-> TRUE, called |-> TRUE, calls |-> 1, ret |-> model.msg]
    ELSE [raised |-> FALSE, called |-> TRUE, calls |-> 1,
          ret |-> [answer |-> PyPrefix(context, model.span), score |-> model.score]]

\* answer_question answering a failed inference with the start of the context
HuggingFaceQA_answer_question_echo(pipe, question, context, model) ==
    LET r == HuggingFaceQA_answer_question_try(pipe, question, context, model)
    IN  IF r.raised
        THEN [raised |-> FALSE, called |-> r.called, caught |-> TRUE,
              calls |-> r.calls,
              ret |-> [answer |-> PyPrefix(context, 3), score |-> 0]]
        ELSE [raised |-> FALSE, called |-> r.called, caught |-> FALSE,
              calls |-> r.calls, ret |-> r.ret]

\* app.py:213-230
HuggingFaceQA_answer_question(pipe, question, context, model) ==
    LET r == HuggingFaceQA_answer_question_try(pipe, question, context, model)
    IN  IF r.raised
        THEN [raised |-> FALSE, called |-> r.called, caught |-> TRUE,
              calls |-> r.calls,
              ret |-> [answer |-> "QA error: " \o r.ret, score |-> 0]]
        ELSE [raised |-> FALSE, called |-> r.called, caught |-> FALSE,
              calls |-> r.calls, ret |-> r.ret]

\* app.py:237-244; init_fails: genai.GenerativeModel raises
GeminiQA_init(init_fails) == IF init_fails THEN "None" ELSE "model"

\* app.py:251-267, the body of the try; model is what generate_content does
GeminiQA_answer_question_try(gmodel, question, context, model) ==
    IF gmodel = "None"
    THEN [raised |-> FALSE, called |-> FALSE, calls |-> 0,
          ret |-> "Gemini model not initialized"]
    ELSE IF model.fails
    THEN [raised |-> TRUE, called |-> TRUE, calls |-> 1, ret |-> model.msg]
    ELSE IF model.has_text
    THEN [raised |-> FALSE, called |-> TRUE, calls |-> 1, ret |-> model.text]
    ELSE [raised |-> FALSE, called |-> TRUE, calls |-> 1,
          ret |-> "No response generated"]

\* app.py:246-272
GeminiQA_answer_question(gmodel, question, context, model) ==
    LET r == GeminiQA_answer_question_try(gmodel, question, context, model)
    IN  IF r.raised
        THEN [raised |-> FALSE, called |-> r.called, caught |-> TRUE,
              calls |-> r.calls,
              ret |-> "Error generating response: " \o r.ret]
        ELSE [raised |-> FALSE, called |-> r.called, caught |-> FALSE,
              calls |-> r.calls, ret |-> r.ret]

(***************************************************************************)
(* Interview question generator, Task 3/task3_complete.py.  model is what  *)
(* one call of model.generate_content does: it raises, or it returns a     *)
(* response whose text is blocked (reading response.text raises), or a     *)
(* response with text.  None is written "None".                            *)
(***************************************************************************)
\* task3_complete.py:8-31
get_user_input(role_in, specialization_in, level_in, context_in) ==
    LET role == Strip(role_in)
        specialization == Strip(specialization_in)
        experience_level == Lower(Strip(level_in))
    IN  [role |-> IF role = "" THEN "Software Engineer" ELSE role,
         specialization |-> IF specialization = "" THEN "Full-stack Development"
                            ELSE specialization,
         experience_level |-> IF experience_level \notin {"junior", "mid-level", "senior"}
                              THEN "mid-level" ELSE experience_level,
         company_context |-> Strip(context_in)]

\* task3_complete.py:67-70, 111-114, 158-161: the body of the try of a
\* generate function; calls counts the invocations of generate_content
generate_try(model, prompt) ==
    IF model.fails \/ model.blocked
    THEN [raised |-> TRUE, ret |-> model.msg, calls |-> 1, prompt |-> prompt]
    ELSE [raised |-> FALSE, ret |-> model.text, calls |-> 1, prompt |-> prompt]

\* the except branch of a generate function: the error is printed, None returned
generate_except(r, what) ==
    IF r.raised
    THEN [raised |-> FALSE, caught |-> TRUE, ret |-> "None", calls |-> r.calls,
          msg |-> r.ret, prompt |-> r.prompt,
          shown |-> "Error generating " \o what \o " questions: " \o r.ret]
    ELSE [raised |-> FALSE, caught |-> FALSE, ret |-> r.ret, calls |-> r.calls,
          msg |-> "", prompt |-> r.prompt, shown |-> r.ret]

\* task3_complete.py:36-39, the opening of the behavioral prompt
behavioral_prompt(role, specialization, experience_level, company_context) ==
    LET context_addition == IF company_context # "" THEN " at a " \o company_context
                            ELSE ""
    IN  "You are an experienced technical hiring manager" \o context_addition
        \o ". Generate 3 behavioral interview questions specifically designed for a "
        \o experience_level \o " " \o role \o " with expertise in "
        \o specialization \o "."

\* generate_behavioral_questions asking once more after a failure
generate_behavioral_questions_retrying(model, role, specialization, experience_level, company_context) ==
    LET prompt == behavioral_prompt(role, specialization, experience_level,
                                    company_context)
        first == generate_try(model, prompt)
        second == generate_try(model, prompt)
    IN  IF first.raised
        THEN generate_except([second EXCEPT !.calls = first.calls + second.calls],
                             "behavioral")
        ELSE generate_except(first, "behavioral")

\* task3_complete.py:33-73
generate_behavioral_questions(model, role, specialization, experience_level, company_context) ==
    generate_except(generate_try(model,
                                 behavioral_prompt(role, specialization,
                                                   experience_level, company_context)),
                    "behavioral")

\* task3_complete.py:78-82, the opening of the technical prompt
technical_prompt(role, specialization, experience_level, company_context) ==
    LET context_addition == IF company_context # ""
                            THEN " in a " \o company_context \o " environment"
                            ELSE ""
    IN  "As a senior " \o role \o " and technical interviewer with expertise in "
        \o specialization \o ", generate 3 technical interview questions for a "
        \o experience_level \o " " \o role \o " specializing in "
        \o specialization \o context_addition \o "."

\* task3_complete.py:75-117
generate_technical_questions(model, role, specialization, experience_level, company_context) ==
    generate_except(generate_try(model,
                                 technical_prompt(role, specialization,
                                                  experience_level, company_context)),
                    "technical")

\* task3_complete.py:125-128, the opening of the advanced prompt
advanced_prompt(role, specialization, experience_level, company_context) ==
    "Context: You are interviewing for a " \o experience_level \o " " \o role
    \o " position at a " \o company_context \o " that specializes in "
    \o specialization \o "."

\* task3_complete.py:119-164
generate_advanced_context_questions(model, role, specialization, experience_level, company_context) ==
    IF company_context = ""
    THEN [raised |-> FALSE, caught |-> FALSE, ret |-> "None", calls |-> 0,
          msg |-> "", prompt |-> "", shown |-> "none"]
    ELSE generate_except(generate_try(model,
                                      advanced_prompt(role, specialization,
                                                      experience_level,
                                                      company_context)),
                         "advanced context")

\* task3_complete.py:263, the answer to "another role?"
wants_another_role(answer) == Lower(Strip(answer)) \in {"y", "yes"}

(***************************************************************************)
(* Inputs                                                                  *)
(***************************************************************************)
\* pasted texts and contents of plain files
Texts == {"", Rep("x", 50), Rep("z", 101)}

Letter == <<"a", "b", "c", "d", "e", "f">>

\* what the parser returns: n blocks of len characters, block i filled with
\* the i-th letter
Blocks(n, len) == [i \in 1..n |-> Rep(Letter[i], len)]

\* uploads: a .txt file with any text and a .md file; a PDF parsed into no
\* block, 2 blocks or MaxBlocks blocks of 50 characters; a Word file parsed
\* into two blocks that join to exactly MIN_CONTENT characters; a file of
\* another type, which TextLoader reads into one block
Files ==
    {[name |-> "notes.txt", text |-> t, blocks |-> <<>>] : t \in Texts}
    \cup
    {[name |-> "readme.md", text |-> Rep("x", 50), blocks |-> <<>>]}
    \cup
    {[name |-> "paper.pdf", text |-> "", blocks |-> Blocks(n, 50)] :
        n \in {0, 2, MaxBlocks}}
    \cup
    {[name |-> "cv.docx", text |-> "", blocks |-> Blocks(2, 49)]}
    \cup
    {[name |-> "data.csv", text |-> "", blocks |-> <<Rep("z", 101)>>]}

IsTextFile(file) == EndsWith(file.name, ".txt") \/ EndsWith(file.name, ".md")

\* the collaborator that raises during load_from_file, if any: a plain file
\* is only read, a structured one is read, written to a temporary file and
\* parsed, and embedded and indexed when its text is substantial
FileFailures(file) ==
    IF IsTextFile(file) THEN {"none", "read"}
    ELSE IF Len(Join(file.blocks, "\n\n")) > MIN_CONTENT
    THEN {"none", "read", "write", "parse", "embed", "index"}
    ELSE {"none", "read", "write", "parse"}

\* message of the exception a failing collaborator raises
ExcMsg(fail) ==
    CASE fail = "read"   -> "cannot read upload"
      [] fail = "write"  -> "disk full"
      [] fail = "parse"  -> "bad format"
      [] fail = "embed"  -> "model unavailable"
      [] fail = "index"  -> "index failed"
      [] fail = "search" -> "timed out"
      [] OTHER           -> ""

\* messages of the exceptions an answer model raises
ModelMsgs == {"out of memory", "quota exceeded"}

ExampleKeys == {"solar_energy", "ai_ethics", "renewable_energy", "unknown"}

Queries == {"X", "dog"}

\* queries handed to load_from_web_search called on its own
SearchQueries == {"dog"}

MaxCharsValues == {0, 50, DEFAULT_MAX_CHARS}

SearchResults ==
    {[title |-> "T1", body |-> "B1", href |-> "U1"],
     [title |-> "T2", snippet |-> "S2"]}

RECURSIVE SeqsUpTo(_, _)
\* the sequences over S of length at most n
SeqsUpTo(S, n) ==
    IF n = 0 THEN {<<>>}
    ELSE LET shorter == SeqsUpTo(S, n - 1)
         IN  shorter \cup {Append(q, x) : q \in shorter, x \in S}

\* what self.ddgs.text does: raises, or returns up to MaxResults results
Providers ==
    {[fails |-> TRUE, msg |-> ExcMsg("search"), results |-> <<>>]}
    \cup
    {[fails |-> FALSE, msg |-> "", results |-> rs] :
        rs \in SeqsUpTo(SearchResults, MaxResults)}

\* what the extractive pipeline does on one call
HFModels ==
    {[fails |-> TRUE, msg |-> m, span |-> 0, score |-> 0] : m \in ModelMsgs}
    \cup
    {[fails |-> FALSE, msg |-> "", span |-> 3, score |-> sc] : sc \in {0, 97}}

\* what generate_content does on one call
GeminiModels ==
    {[fails |-> TRUE, msg |-> m, has_text |-> FALSE, text |-> ""] : m \in ModelMsgs}
    \cup
    {[fails |-> FALSE, msg |-> "", has_text |-> TRUE, text |-> t] :
        t \in {"It says so.", "I cannot answer this based on the provided context."}}
    \cup
    {[fails |-> FALSE, msg |-> "", has_text |-> FALSE, text |-> ""]}

(***************************************************************************)
(* The record of the most recent call.                                     *)
(***************************************************************************)
\* what model.generate_content does on one call
GenModels ==
    {[fails |-> TRUE, blocked |-> FALSE, msg |-> "quota exceeded", text |-> ""],
     [fails |-> FALSE, blocked |-> TRUE, msg |-> "response blocked", text |-> ""],
     [fails |-> FALSE, blocked |-> FALSE, msg |-> "",
      text |-> "1. Tell me about a time you disagreed with a colleague."]}

\* what the user types at the prompts of get_user_input
RoleInputs == {"", " Data Scientist "}

SpecializationInputs == {"", "AI/ML"}

LevelInputs == {"", " Senior", "guru"}

ContextInputs == {"", "   ", "fintech company"}

\* what the user types when asked about another role
AnotherRoleInputs == {"y", " YES ", "Y", "n", "", "yeah"}

NoCtx == [searched |-> FALSE, search_raised |-> FALSE, hits |-> <<>>]

\* again tells that the call repeats the call before it: the same method with
\* the same arguments and the same behaviour of its collaborators
NoCall ==
    [op |-> "init", input |-> "", fail |-> "none", raised |-> FALSE,
     ret |-> "", info |-> NoInfo, max_chars |-> 0, ctx |-> NoCtx,
     again |-> FALSE]

\* a load call r made with the input and the failing collaborator named
Loaded(op, input, fail, r) ==
    [NoCall EXCEPT !.op = op, !.input = input, !.fail = fail,
                   !.raised = r.raised, !.ret = r.ret, !.info = r.info]

\* a get_relevant_context call r
Selected(query, max_chars, search_fails, r) ==
    [NoCall EXCEPT !.op = "get_relevant_context", !.input = query,
                   !.fail = IF r.search_raised THEN "search" ELSE "none",
                   !.raised = r.raised, !.ret = r.ret, !.max_chars = max_chars,
                   !.info = [NoInfo EXCEPT !.caught = r.search_raised],
                   !.ctx = [searched |-> r.searched,
                            search_raised |-> r.search_raised,
                            hits |-> r.hits]]

\* an answer_question call r of the backend op
Answered(op, model, r) ==
    [NoCall EXCEPT !.op = op,
                   !.fail = IF ~r.called THEN "init"
                            ELSE IF model.fails THEN "model" ELSE "none",
                   !.raised = r.raised, !.ret = r.ret,
                   !.info = [NoInfo EXCEPT !.caught = r.caught,
                                           !.calls = r.calls,
                                           !.msg = IF r.caught THEN model.msg
                                                   ELSE ""]]

\* a call r of a generate function of the question generator
Generated(op, r) ==
    [NoCall EXCEPT !.op = op,
                   !.fail = IF r.caught THEN "model" ELSE "none",
                   !.raised = r.raised, !.ret = r.ret,
                   !.info = [NoInfo EXCEPT !.caught = r.caught,
                                           !.calls = r.calls]]

\* the DocumentLoader and the disk become what the call r left
Store(r) ==
    /\ current_document' = r.self.current_document
    /\ document_source' = r.self.document_source
    /\ vector_store' = r.self.vector_store
    /\ embeddings' = r.self.embeddings
    /\ temp_files' = r.fs

NoUI ==
    [pc |-> "idle", source_option |-> "None", model_option |-> "None",
     qa_pipeline |-> "None", gemini_model |-> "None",
     user_question |-> "", document |-> "", steps |-> <<>>,
     context |-> "", answer |-> "", warning |-> ""]

(***************************************************************************)
(* State machine of one DocumentLoader and the two answer backends, called *)
(* in any order.  A backend object does not change after its construction, *)
(* so a backend call is taken together with the construction of its object.*)
(***************************************************************************)
\* the sentiment CLI before it starts: file and review are the parsed flags,
\* at the prompt the line input was typed at, ran whether the last step called
\* predict_sentiment, predicted the texts handed to predict_sentiment so far
\* and results what it made of each; disk is the file --file named and
\* numbers the numbers of its lines that were handed to predict_sentiment
NoCLI ==
    [pc |-> "start", mode |-> "none", file |-> "None", review |-> "None",
     at |-> "none", input |-> "", ran |-> FALSE, predicted |-> <<>>,
     results |-> <<>>, shown |-> "none",
     disk |-> [exists |-> FALSE, readable |-> FALSE, lines |-> <<>>],
     numbers |-> <<>>]

\* the question generator before it starts: requests are the calls of
\* generate_content of the round, answer what was typed at the last
\* "another role?" prompt
NoT3 ==
    [pc |-> "start", round |-> 1, role |-> "", specialization |-> "",
     experience_level |-> "", company_context |-> "", requests |-> <<>>,
     answer |-> "", shown |-> "none"]

Init ==
    /\ current_document = DocumentLoader_init.current_document
    /\ document_source = DocumentLoader_init.document_source
    /\ vector_store = DocumentLoader_init.vector_store
    /\ embeddings = DocumentLoader_init.embeddings
    /\ temp_files = {}
    /\ last = NoCall
    /\ ui = NoUI
    /\ cli = NoCLI
    /\ t3 = NoT3

LoadFromText ==
    \E text \in Texts :
        \E r \in {load_from_text(Self, temp_files, text)} :
            /\ Store(r)
            /\ last' = Loaded("load_from_text", text, "none", r)
            /\ UNCHANGED <<ui, cli, t3>>

LoadFromFile ==
    \E file \in Files : \E fail \in FileFailures(file) :
        /\ IsTextFile(file) \/ Cardinality(temp_files) < MaxTempFiles
        /\ \E r \in {load_from_file(Self, temp_files, file, fail, ExcMsg(fail))} :
               /\ Store(r)
               /\ last' = Loaded("load_from_file", file.name, fail, r)
        /\ UNCHANGED <<ui, cli, t3>>

LoadFromExample ==
    \E example_key \in ExampleKeys :
        \E r \in {load_from_example(Self, temp_files, example_key)} :
            /\ Store(r)
            /\ last' = Loaded("load_from_example", example_key, "none", r)
            /\ UNCHANGED <<ui, cli, t3>>

LoadFromWebSearch ==
    \E query \in SearchQueries, provider \in Providers :
        \E r \in {load_from_web_search(Self, temp_files, query, MaxResults, provider)} :
            /\ Store(r)
            /\ last' = Loaded("load_from_web_search", query,
                              IF provider.fails THEN "search" ELSE "none", r)
            /\ UNCHANGED <<ui, cli, t3>>

\* get_relevant_context using up the index it searches
GetRelevantContext_consuming ==
    \E query \in Queries, max_chars \in MaxCharsValues, search_fails \in BOOLEAN :
        \E r \in {get_relevant_context(Self, query, max_chars, search_fails,
                                        ExcMsg("search"))} :
        \E c \in {Selected(query, max_chars, search_fails, r)} :
        /\ last' = [c EXCEPT !.again = /\ last.op = c.op
                                       /\ last.input = c.input
                                       /\ last.max_chars = c.max_chars
                                       /\ last.fail = c.fail]
        /\ vector_store' = IF r.searched THEN NoStore ELSE vector_store
        /\ UNCHANGED <<current_document, document_source,
                       embeddings, temp_files, ui, cli, t3>>

GetRelevantContext ==
    \E query \in Queries, max_chars \in MaxCharsValues, search_fails \in BOOLEAN :
        /\ \E r \in {get_relevant_context(Self, query, max_chars, search_fails,
                                            ExcMsg("search"))} :
           \E c \in {Selected(query, max_chars, search_fails, r)} :
               last' = [c EXCEPT !.again = /\ last.op = c.op
                                           /\ last.input = c.input
                                           /\ last.max_chars = c.max_chars
                                           /\ last.fail = c.fail]
        /\ UNCHANGED <<current_document, document_source, vector_store,
                       embeddings, temp_files, ui, cli, t3>>

\* contexts handed to a backend called on its own
Contexts == {Rep("x", 50), Rep("z", 101)}

\* a backend whose construction failed never reaches its model: one setup
\* stands for all of them
BackendSetups(models) ==
    {[init_fails |-> TRUE, model |-> CHOOSE m \in models : m.fails]}
    \cup {[init_fails |-> FALSE, model |-> m] : m \in models}

HuggingFaceAnswer ==
    \E setup \in BackendSetups(HFModels), context \in Contexts :
    \E init_fails \in {setup.init_fails}, model \in {setup.model} :
        /\ init_fails => context = Rep("x", 50)
        /\ \E r \in {HuggingFaceQA_answer_question(HuggingFaceQA_init(init_fails),
                                                     "X", context, model)} :
               last' = Answered("HuggingFaceQA.answer_question", model, r)
        /\ UNCHANGED <<current_document, document_source, vector_store,
                       embeddings, temp_files, ui, cli, t3>>

GeminiAnswer ==
    \E setup \in BackendSetups(GeminiModels) :
    \E init_fails \in {setup.init_fails}, model \in {setup.model} :
        /\ \E r \in {GeminiQA_answer_question(GeminiQA_init(init_fails),
                                                "X", Rep("x", 50), model)} :
               last' = Answered("GeminiQA.answer_question", model, r)
        /\ UNCHANGED <<current_document, document_source, vector_store,
                       embeddings, temp_files, ui, cli, t3>>

\* one of the generate functions of the question generator, called on its own
GenerateQuestions ==
    \E company_context \in {"", "fintech company"}, model \in GenModels,
       kind \in {"behavioral", "technical", "advanced_context"} :
        /\ model.blocked => kind = "behavioral"
        /\ \E r \in {IF kind = "behavioral"
                      THEN generate_behavioral_questions(
                               model, "Software Engineer", "Full-stack Development",
                               "mid-level", company_context)
                      ELSE IF kind = "technical"
                      THEN generate_technical_questions(
                               model, "Software Engineer", "Full-stack Development",
                               "mid-level", company_context)
                      ELSE generate_advanced_context_questions(
                               model, "Software Engineer", "Full-stack Development",
                               "mid-level", company_context)} :
               last' = Generated("generate_" \o kind \o "_questions", r)
        /\ UNCHANGED <<current_document, document_source, vector_store,
                       embeddings, temp_files, ui, cli, t3>>

Next ==
    \/ LoadFromText
    \/ LoadFromFile
    \/ LoadFromExample
    \/ LoadFromWebSearch
    \/ GetRelevantContext
    \/ HuggingFaceAnswer
    \/ GeminiAnswer
    \/ GenerateQuestions

Spec == Init /\ [][Next]_vars

(***************************************************************************)
(* The Streamlit script, app.py:317-484.  Every user interaction runs the  *)
(* script from the top: it constructs the DocumentLoader and the two       *)
(* backends, loads the document the sidebar names, and handles the         *)
(* "Get Answer" button.  ui.steps lists the pipeline calls of the run.     *)
(***************************************************************************)
SourceOptions == {"Paste Text", "Upload File", "Web Search"}

ModelOptions == {"Google Gemini", "Hugging Face Transformers"}

\* what the user typed into the question box
UserQuestions == {""} \cup Queries

\* st.file_uploader(type=["txt", "md", "pdf", "docx"])
UploadableFiles ==
    {f \in Files : \E ext \in {".txt", ".md", ".pdf", ".docx"} : EndsWith(f.name, ext)}

\* app.py:318-336: the objects are constructed and the sidebar is read
UIStart ==
    \E model_option \in ModelOptions, source_option \in SourceOptions,
       hf_init_fails \in BOOLEAN, gemini_init_fails \in BOOLEAN :
        /\ ui.pc = "idle"
        /\ UNCHANGED <<cli, t3>>
        /\ current_document' = DocumentLoader_init.current_document
        /\ document_source' = DocumentLoader_init.document_source
        /\ vector_store' = DocumentLoader_init.vector_store
        /\ embeddings' = DocumentLoader_init.embeddings
        /\ last' = NoCall
        /\ ui' = [NoUI EXCEPT !.pc = "sidebar",
                              !.model_option = model_option,
                              !.source_option = source_option,
                              !.qa_pipeline = HuggingFaceQA_init(hf_init_fails),
                              !.gemini_model = GeminiQA_init(gemini_init_fails)]
        /\ UNCHANGED temp_files

\* app.py:386-408 and 446-468: the chosen backend answers from document
qa_answer(u, user_question, document, hf_model, gemini_model_does) ==
    IF u.model_option = "Google Gemini"
    THEN LET r == GeminiQA_answer_question(u.gemini_model, user_question,
                                           document, gemini_model_does)
         IN  [u EXCEPT !.steps = Append(@, "GeminiQA.answer_question"),
                       !.context = document, !.answer = r.ret]
    ELSE LET r == HuggingFaceQA_answer_question(u.qa_pipeline, user_question,
                                                document, hf_model)
         IN  [u EXCEPT !.steps = Append(@, "HuggingFaceQA.answer_question"),
                       !.context = document, !.answer = r.ret.answer]

\* app.py:381-408 and 441-468: what "Get Answer" does once document is settled
qa_handler(u, user_question, document, hf_model, gemini_model_does) ==
    IF document = ""
    THEN [u EXCEPT !.warning = "No document available. Please provide text, upload a file, or enter a search question."]
    ELSE IF user_question = ""
    THEN [u EXCEPT !.warning = "Please enter a question."]
    ELSE qa_answer(u, user_question, document, hf_model, gemini_model_does)

\* app.py:338-345
UIPasteText ==
    \E user_text \in Texts :
        /\ ui.pc = "sidebar"
        /\ UNCHANGED <<cli, t3>>
        /\ ui.source_option = "Paste Text"
        /\ IF user_text # ""
           THEN \E r \in {load_from_text(Self, temp_files, user_text)} :
                    /\ Store(r)
                    /\ last' = Loaded("load_from_text", user_text, "none", r)
                    /\ ui' = [ui EXCEPT !.pc = "main", !.document = r.ret,
                                        !.steps = Append(@, "load_from_text")]
           ELSE /\ ui' = [ui EXCEPT !.pc = "main"]
                /\ UNCHANGED <<current_document, document_source, vector_store,
                               embeddings, temp_files, last>>

\* app.py:347-354, with a file in the uploader
UIUploadFile ==
    \E uploaded_file \in UploadableFiles : \E fail \in FileFailures(uploaded_file) :
        /\ ui.pc = "sidebar"
        /\ UNCHANGED <<cli, t3>>
        /\ ui.source_option = "Upload File"
        /\ IsTextFile(uploaded_file) \/ Cardinality(temp_files) < MaxTempFiles
        /\ \E r \in {load_from_file(Self, temp_files, uploaded_file, fail,
                                      ExcMsg(fail))} :
               /\ Store(r)
               /\ last' = Loaded("load_from_file", uploaded_file.name, fail, r)
               /\ ui' = [ui EXCEPT !.pc = "main", !.document = r.ret,
                                   !.steps = Append(@, "load_from_file")]

\* app.py:347-354, with the uploader empty
UINoUpload ==
    /\ ui.pc = "sidebar"
    /\ UNCHANGED <<cli, t3>>
    /\ ui.source_option = "Upload File"
    /\ ui' = [ui EXCEPT !.pc = "main"]
    /\ UNCHANGED <<current_document, document_source, vector_store,
                   embeddings, temp_files, last>>

\* app.py:356-408: the question box and the button of the Web Search page
UIWebSearch ==
    \E user_question \in UserQuestions, clicked \in BOOLEAN,
       provider \in Providers, hf_model \in HFModels,
       gemini_model_does \in GeminiModels :
        /\ ui.pc = "sidebar"
        /\ UNCHANGED <<cli, t3>>
        /\ ui.source_option = "Web Search"
        /\ LET u0 == [ui EXCEPT !.pc = "main", !.user_question = user_question]
           IN  IF ~clicked
               THEN /\ ui' = u0
                    /\ UNCHANGED <<current_document, document_source,
                                   vector_store, embeddings, temp_files, last>>
               ELSE IF ui.source_option = "Web Search" /\ ui.document = ""
                       /\ user_question # ""
               THEN \E r \in {load_from_web_search(Self, temp_files, user_question,
                                                     MaxResults, provider)} :
                    LET u1 == [u0 EXCEPT !.document = r.ret,
                                         !.steps = Append(@, "load_from_web_search")]
                    IN  /\ Store(r)
                        /\ last' = Loaded("load_from_web_search", user_question,
                                          IF provider.fails THEN "search" ELSE "none", r)
                        /\ ui' = qa_handler(u1, user_question, r.ret,
                                            hf_model, gemini_model_does)
               ELSE /\ ui' = qa_handler(u0, user_question, ui.document,
                                        hf_model, gemini_model_does)
                    /\ UNCHANGED <<current_document, document_source,
                                   vector_store, embeddings, temp_files, last>>

\* app.py:410-468: the question box and the button of the other pages; the
\* web search of app.py:432-439 cannot run here, source_option not being
\* "Web Search" (app.py:423)
UIMain ==
    \E user_question \in UserQuestions, clicked \in BOOLEAN,
       hf_model \in HFModels, gemini_model_does \in GeminiModels :
        /\ ui.pc = "main"
        /\ UNCHANGED <<cli, t3>>
        /\ IF ui.source_option # "Web Search" /\ clicked
           THEN ui' = [qa_handler([ui EXCEPT !.user_question = user_question],
                                  user_question, ui.document, hf_model,
                                  gemini_model_does)
                         EXCEPT !.pc = "idle"]
           ELSE /\ ui' = [ui EXCEPT !.pc = "idle",
                             !.user_question =
                                 IF ui.source_option # "Web Search"
                                 THEN user_question ELSE @]
        /\ UNCHANGED <<current_document, document_source, vector_store,
                       embeddings, temp_files, last>>

NextUI ==
    \/ UIStart
    \/ UIPasteText
    \/ UIUploadFile
    \/ UINoUpload
    \/ UIWebSearch
    \/ UIMain

SpecUI == Init /\ [][NextUI]_vars

(***************************************************************************)
(* Properties                                                              *)
(***************************************************************************)
\* the index, when there is one, was built from the blocks of current_document
IndexIsCurrent ==
    vector_store.present /\ Join(vector_store.docs, "\n\n") = current_document

\* C1: whenever a vector store exists, it was built from the blocks of the
\* Document that is current, never from an earlier one.
C1_IndexBelongsToCurrentDocument ==
    vector_store.present => Join(vector_store.docs, "\n\n") = current_document

\* C2: a load_from_file or load_from_web_search call in which a collaborator
\* failed leaves current_document and document_source as they were before it.
C2_FailedLoadKeepsDocument ==
    [][(/\ last'.op \in {"load_from_file", "load_from_web_search"}
        /\ last'.info.caught)
       => /\ current_document' = current_document
          /\ document_source' = document_source]_vars

\* C3: when the embedding or the index build fails in a structured-file load
\* whose parsing succeeded, the load still succeeds: the parsed text is the
\* current Document under the file's name, there is no Index, and the value
\* returned is the text, not a loading error.
C3_IndexFailureStillLoads ==
    (/\ last.op = "load_from_file"
     /\ last.info.parsed
     /\ last.fail \in {"embed", "index"}
     /\ Len(last.info.text_content) > 100)
    => /\ current_document = last.info.text_content
       /\ document_source = last.input
       /\ ~vector_store.present
       /\ last.ret = last.info.text_content

GuardedOps == {"load_from_file", "load_from_web_search", "get_relevant_context",
               "HuggingFaceQA.answer_question", "GeminiQA.answer_question"}

\* s.startswith(prefix)
StartsWith(s, prefix) ==
    Len(prefix) <= Len(s) /\ SubSeq(s, 1, Len(prefix)) = prefix

\* the error messages and sentinels of the pipeline
IsErrorText(s) ==
    \/ \E prefix \in {"File loading error: ", "Search error: ",
                      "Web search error: ", "QA error: ",
                      "Error generating response: "} : StartsWith(s, prefix)
    \/ s \in {"QA pipeline not initialized", "Gemini model not initialized"}

\* the most recent call met a failing collaborator
CallFailed == last.info.caught \/ last.fail = "init"

\* the text the most recent call returned
ReturnedText ==
    IF last.op = "HuggingFaceQA.answer_question" THEN last.ret.answer ELSE last.ret

\* the raw text of the current Document cut at max_chars
RawFallback(max_chars) ==
    IF Len(current_document) <= max_chars THEN current_document
    ELSE SubSeq(current_document, 1, max_chars) \o "..."

\* C4 as stated: none of the five calls lets an exception out, and the value
\* it returns after a collaborator failed is an error message or a sentinel.
C4_FailureReturnsErrorValue ==
    last.op \in GuardedOps
    => /\ ~last.raised
       /\ CallFailed => IsErrorText(ReturnedText)

\* C4 amended: none of the five calls lets an exception out; after a
\* collaborator failed, the load and answer calls return an error message or
\* a sentinel, and get_relevant_context returns the raw-text fallback.
C4_NoExceptionEscapes ==
    last.op \in GuardedOps
    => /\ ~last.raised
       /\ (CallFailed /\ last.op # "get_relevant_context")
            => IsErrorText(ReturnedText)
       /\ (CallFailed /\ last.op = "get_relevant_context")
            => ReturnedText = RawFallback(last.max_chars)

C4_Witness ==
    /\ last.op = "get_relevant_context"
    /\ last.info.caught
    /\ ~last.raised
    /\ Len(current_document) > last.max_chars

\* C5: the temporary file a load_from_file call created is gone from the disk
\* when the call has returned.
C5_TempFileRemoved ==
    (last.op = "load_from_file" /\ last.info.temp_path # 0)
    => last.info.temp_path \notin temp_files

\* C7: a load builds an Index only on the structured-file path and only for
\* a text of more than 100 characters.
C7_IndexOnlyForSubstantialStructuredFile ==
    last.info.built
    => /\ last.op = "load_from_file"
       /\ ~(EndsWith(last.input, ".txt") \/ EndsWith(last.input, ".md"))
       /\ Len(last.info.text_content) > 100

C7_Witness ==
    /\ last.op = "load_from_file"
    /\ last.info.built
    /\ Len(last.info.text_content) = 102
    /\ vector_store.present

\* C8: when the current Document has at most 100 and at most max_chars
\* characters, get_relevant_context returns exactly its text.
C8_ShortDocumentIsItsOwnContext ==
    (/\ last.op = "get_relevant_context"
     /\ Len(current_document) <= 100
     /\ Len(current_document) <= last.max_chars)
    => last.ret = current_document

\* the elements of a sequence
Range(f) == {f[i] : i \in DOMAIN f}

\* C9: with an Index of the current Document and a search that succeeds,
\* get_relevant_context returns the at most 3 passages the search returned,
\* in that order, joined by a blank line, cut to max_chars characters plus
\* "..." when the joined text is longer than max_chars.
C9_VectorContext ==
    (/\ last.op = "get_relevant_context"
     /\ IndexIsCurrent
     /\ last.ctx.searched
     /\ ~last.ctx.search_raised)
    => LET hits   == last.ctx.hits
           joined == Join(hits, "\n\n")
       IN  /\ Len(hits) <= 3
           /\ Range(hits) \subseteq Range(vector_store.docs)
           /\ last.ret = IF Len(joined) > last.max_chars
                         THEN SubSeq(joined, 1, last.max_chars) \o "..."
                         ELSE joined

C9_Witness ==
    /\ last.op = "get_relevant_context"
    /\ IndexIsCurrent
    /\ last.ctx.searched
    /\ ~last.ctx.search_raised
    /\ Len(vector_store.docs) > 3
    /\ Len(last.ctx.hits) = 3
    /\ last.ctx.hits # SubSeq(vector_store.docs, 1, 3)
    /\ Len(last.ret) = last.max_chars + 3

\* C10: without an Index, or when the search on the Index raises,
\* get_relevant_context returns the raw text of the current Document, cut to
\* max_chars characters plus "..." when it is longer than max_chars.
C10_RawTextFallback ==
    (/\ last.op = "get_relevant_context"
     /\ (~vector_store.present \/ last.ctx.search_raised))
    => last.ret = RawFallback(last.max_chars)

C10_Witness ==
    /\ last.op = "get_relevant_context"
    /\ vector_store.present
    /\ last.ctx.search_raised
    /\ Len(current_document) > last.max_chars
    /\ last.max_chars > 0

\* position of the first occurrence of x in the sequence q, 0 when absent
IndexOf(q, x) ==
    IF \E i \in DOMAIN q : q[i] = x
    THEN CHOOSE i \in DOMAIN q : q[i] = x /\ \A j \in 1..(i - 1) : q[j] # x
    ELSE 0

\* the answer backends, as named in ui.steps
BackendSteps == {"GeminiQA.answer_question", "HuggingFaceQA.answer_question"}

\* a backend was called in the script run
BackendCalled == \E i \in DOMAIN ui.steps : ui.steps[i] \in BackendSteps

\* C6: the context a question is answered from is what get_relevant_context
\* returns for that question over the current Document and Index, and the
\* backend is called only after a get_relevant_context call of the run.
C6_BackendGetsSelectedContext ==
    BackendCalled
    => /\ \E search_fails \in BOOLEAN :
             ui.context = get_relevant_context(Self, ui.user_question,
                                               DEFAULT_MAX_CHARS, search_fails,
                                               ExcMsg("search")).ret
       /\ IndexOf(ui.steps, "get_relevant_context") # 0
       /\ \A i \in DOMAIN ui.steps :
             ui.steps[i] \in BackendSteps
             => IndexOf(ui.steps, "get_relevant_context") < i

\* C11: the string get_relevant_context returns is never longer than
\* max_chars plus the 3 characters of the ellipsis marker (max_chars >= 0).
C11_ContextLengthBounded ==
    (last.op = "get_relevant_context" /\ last.max_chars >= 0)
    => Len(last.ret) <= last.max_chars + 3

C11_Witness ==
    /\ last.op = "get_relevant_context"
    /\ last.ctx.search_raised
    /\ Len(current_document) > last.max_chars + 3
    /\ Len(last.ret) = last.max_chars + 3

\* C12: a get_relevant_context call that repeats the call before it (same
\* question, same max_chars, same behaviour of the search) returns the same
\* string, and a get_relevant_context call leaves current_document,
\* document_source and the Index as they were.
C12_ContextSelectionRepeatable ==
    [][last'.op = "get_relevant_context"
       => /\ UNCHANGED <<current_document, document_source, vector_store>>
          /\ (/\ last.op = "get_relevant_context"
              /\ last'.input = last.input
              /\ last'.max_chars = last.max_chars
              /\ last'.fail = last.fail)
             => last'.ret = last.ret]_vars

C12_Witness ==
    /\ last.op = "get_relevant_context"
    /\ last.again
    /\ last.ctx.searched
    /\ ~last.ctx.search_raised
    /\ Len(last.ctx.hits) = 3

\* the search of the most recent load_from_web_search returned without failing
SearchReturned == last.op = "load_from_web_search" /\ last.fail = "none"

\* C13: a search that returns zero results without failing makes
\* load_from_web_search succeed: the "no results" sentinel becomes the current
\* Document, the source label is the search label of the query, and the value
\* returned is the sentinel, not an error value.
C13_ZeroResultsLoadSentinel ==
    (SearchReturned /\ Len(last.info.results) = 0)
    => /\ current_document = "No results found. Try modifying your search query."
       /\ document_source = "DuckDuckGo Search: " \o last.input
       /\ last.ret = current_document
       /\ ~last.raised /\ ~last.info.caught
       /\ ~IsErrorText(last.ret)

C13_Witness ==
    /\ SearchReturned /\ Len(last.info.results) = 0
    /\ document_source = "DuckDuckGo Search: dog"

\* a field of a search result, or the text that stands for a missing one
Field(result, key, missing) ==
    IF key \in DOMAIN result THEN result[key] ELSE missing

TitleOf(result) == Field(result, "title", "No title available")

SnippetOf(result) ==
    Field(result, "body", Field(result, "snippet", "No description available"))

UrlOf(result) == Field(result, "href", "No link available")

\* C14 as stated: for n >= 1 results the Document text is the n blocks
\* "{title}\nSummary: {snippet}\nURL: {url}" in the provider's order,
\* separated by one blank line, with nothing before, between or after.
C14_BlocksSeparatedByOneBlankLine ==
    (SearchReturned /\ Len(last.info.results) >= 1)
    => LET rs == last.info.results
       IN  current_document =
               Join([i \in 1..Len(rs) |->
                        TitleOf(rs[i]) \o "\nSummary: " \o SnippetOf(rs[i])
                        \o "\nURL: " \o UrlOf(rs[i])], "\n\n")

\* C14: for n >= 1 results the Document text is the n blocks
\* "{title}\nSummary: {snippet}\nURL: {url}\n" in the provider's order, joined
\* by "\n\n": every block ends with its own newline, and a missing field is
\* replaced by its "No ... available" text.
C14_BlocksEndWithNewline ==
    (SearchReturned /\ Len(last.info.results) >= 1)
    => LET rs == last.info.results
       IN  current_document =
               Join([i \in 1..Len(rs) |->
                        TitleOf(rs[i]) \o "\nSummary: " \o SnippetOf(rs[i])
                        \o "\nURL: " \o UrlOf(rs[i]) \o "\n"], "\n\n")

C14_Witness ==
    /\ SearchReturned
    /\ Len(last.info.results) = 2
    /\ last.info.results[1] # last.info.results[2]
    /\ current_document = last.ret

\* the most recent call is an answer_question of the extractive backend that
\* met an internal failure
ExtractiveFailed(call) ==
    /\ call.op = "HuggingFaceQA.answer_question"
    /\ call.fail \in {"init", "model"}

\* C15 as stated: on every internal failure the extractive backend answers
\* with score 0.0 and one fixed error sentinel, the same whatever the failure.
C15_OneFixedSentinel ==
    [][(ExtractiveFailed(last) /\ ExtractiveFailed(last'))
       => /\ last'.ret.score = 0
          /\ last'.ret.answer = last.ret.answer]_vars

\* C15: on every internal failure the extractive backend answers with score
\* 0.0 and an error text fixed by the failure alone: "QA pipeline not
\* initialized" when the pipeline failed to initialise, "QA error: " followed
\* by the exception's message when inference raises.
C15_ErrorTextFixedByFailure ==
    ExtractiveFailed(last)
    => /\ last.ret.score = 0
       /\ last.ret.answer = IF last.fail = "init"
                            THEN "QA pipeline not initialized"
                            ELSE "QA error: " \o last.info.msg
       /\ last.fail = "model" => last.info.msg \in ModelMsgs

C15_Witness ==
    /\ ExtractiveFailed(last)
    /\ last.fail = "model"
    /\ last.info.calls = 1
    /\ last.ret.answer = "QA error: quota exceeded"

\* the operations that call the search provider, a QA model or the
\* generative API
CollaboratorOps ==
    {"load_from_web_search", "HuggingFaceQA.answer_question",
     "GeminiQA.answer_question", "generate_behavioral_questions",
     "generate_technical_questions", "generate_advanced_context_questions"}

\* C16: within one ingestion, answer or question-generation call the search
\* provider, the QA model or the generative API is invoked at most once, and
\* a call that failed is the only one made before the operation returns.
C16_NoRetry ==
    last.op \in CollaboratorOps
    => /\ last.info.calls <= 1
       /\ last.fail \in {"search", "model"} => last.info.calls = 1

C16_Witness ==
    /\ last.op = "generate_behavioral_questions"
    /\ last.fail = "model"
    /\ last.info.caught
    /\ last.info.calls = 1
    /\ last.ret = "None"

\* the most recent call is a load_from_file on a valid file of a supported
\* extension: the upload was read and, for a PDF or Word file, written to the
\* temporary file and parsed, and it holds some text
ValidFileLoaded ==
    /\ last.op = "load_from_file"
    /\ last.fail \notin {"read", "write", "parse"}
    /\ \/ /\ \E ext \in {".txt", ".md"} : EndsWith(last.input, ext)
          /\ last.ret # ""
       \/ /\ \E ext \in {".pdf", ".docx"} : EndsWith(last.input, ext)
          /\ last.info.parsed
          /\ last.info.text_content # ""

\* C17: load_from_file on a valid file of a supported extension returns a
\* non-empty text, and afterwards document_source is the name of the file and
\* current_document is the text returned.
C17_ValidFileBecomesDocument ==
    ValidFileLoaded
    => /\ last.ret # ""
       /\ document_source = last.input
       /\ current_document = last.ret

LoadOps ==
    {"load_from_text", "load_from_file", "load_from_example",
     "load_from_web_search"}

\* the source label a load call assigns
SourceLabel(call) ==
    CASE call.op = "load_from_text"       -> "User input"
      [] call.op = "load_from_file"       -> call.input
      [] call.op = "load_from_example"    -> "Example: " \o call.input
      [] call.op = "load_from_web_search" -> "DuckDuckGo Search: " \o call.input

\* C19: every load call either assigns both current_document (the text it
\* returns) and document_source (the label of its source) or leaves both as
\* they were; load_from_example with an unknown key leaves both.
C19_DocumentAndSourceSetTogether ==
    [][last'.op \in LoadOps
       => /\ \/ UNCHANGED <<current_document, document_source>>
             \/ /\ current_document' = last'.ret
                /\ document_source' = SourceLabel(last')
          /\ (last'.op = "load_from_example"
              /\ last'.input \notin DOMAIN default_documents)
             => UNCHANGED <<current_document, document_source>>]_vars

C19_Witness ==
    /\ last.op = "load_from_example"
    /\ last.input \notin DOMAIN default_documents
    /\ current_document = Rep("x", 50)
    /\ document_source = "readme.md"

(***************************************************************************)
(* The question generator, task3_complete.py:211-266.  main runs in steps: *)
(* it connects, reads the role details, makes the behavioral, the          *)
(* technical and, with a company context, the advanced request, and asks   *)
(* whether to go on; on "y" or "yes" it calls itself for another round.    *)
(* t3.requests lists the requests of the round, each with what it returned.*)
(***************************************************************************)
\* task3_complete.py:215-221; connect_fails: genai.configure or
\* genai.GenerativeModel raises
T3Connect ==
    \E connect_fails \in BOOLEAN :
        /\ t3.pc = "start"
        /\ t3' = IF connect_fails
                 THEN [t3 EXCEPT !.pc = "done", !.shown = "Error connecting to Gemini"]
                 ELSE [t3 EXCEPT !.pc = "input", !.requests = <<>>,
                                 !.shown = "Successfully connected to Gemini 2.0"]
        /\ UNCHANGED <<current_document, document_source, vector_store,
                       embeddings, temp_files, last, ui, cli>>

\* task3_complete.py:224
T3GetUserInput ==
    \E role_in \in RoleInputs, specialization_in \in SpecializationInputs,
       level_in \in LevelInputs, context_in \in ContextInputs :
        /\ t3.pc = "input"
        /\ \E d \in {get_user_input(role_in, specialization_in, level_in, context_in)} :
               t3' = [t3 EXCEPT !.pc = "behavioral", !.role = d.role,
                                !.specialization = d.specialization,
                                !.experience_level = d.experience_level,
                                !.company_context = d.company_context]
        /\ UNCHANGED <<current_document, document_source, vector_store,
                       embeddings, temp_files, last, ui, cli>>

\* the request r of the kind named, as t3.requests keeps it
Request(kind, r) ==
    [kind |-> kind, calls |-> r.calls, failed |-> r.caught, ret |-> r.ret]

\* task3_complete.py:233-236
T3Behavioral ==
    \E model \in GenModels :
        /\ t3.pc = "behavioral"
        /\ \E r \in {generate_behavioral_questions(model, t3.role, t3.specialization,
                                                  t3.experience_level,
                                                  t3.company_context)} :
               t3' = [t3 EXCEPT !.pc = "technical",
                                !.requests = Append(@, Request("behavioral", r)),
                                !.shown = r.shown]
        /\ UNCHANGED <<current_document, document_source, vector_store,
                       embeddings, temp_files, last, ui, cli>>

\* main going on to the summary when the behavioral request failed
T3Technical_unless_failed ==
    \E model \in GenModels :
        /\ t3.pc = "technical"
        /\ \E r \in {generate_technical_questions(model, t3.role, t3.specialization,
                                                 t3.experience_level,
                                                 t3.company_context)} :
               t3' = IF t3.requests[1].failed
                     THEN [t3 EXCEPT !.pc = "again"]
                     ELSE [t3 EXCEPT !.pc = IF t3.company_context # ""
                                            THEN "advanced" ELSE "again",
                                     !.requests = Append(@, Request("technical", r)),
                                     !.shown = r.shown]
        /\ UNCHANGED <<current_document, document_source, vector_store,
                       embeddings, temp_files, last, ui, cli>>

\* task3_complete.py:238-242, and the test of 245
T3Technical ==
    \E model \in GenModels :
        /\ t3.pc = "technical"
        /\ \E r \in {generate_technical_questions(model, t3.role, t3.specialization,
                                                 t3.experience_level,
                                                 t3.company_context)} :
               t3' = [t3 EXCEPT !.pc = IF t3.company_context # ""
                                       THEN "advanced" ELSE "again",
                                !.requests = Append(@, Request("technical", r)),
                                !.shown = r.shown]
        /\ UNCHANGED <<current_document, document_source, vector_store,
                       embeddings, temp_files, last, ui, cli>>

\* task3_complete.py:245-247
T3Advanced ==
    \E model \in GenModels :
        /\ t3.pc = "advanced"
        /\ \E r \in {generate_advanced_context_questions(
                         model, t3.role, t3.specialization, t3.experience_level,
                         t3.company_context)} :
               t3' = [t3 EXCEPT !.pc = "again",
                                !.requests = Append(@, Request("advanced", r)),
                                !.shown = r.shown]
        /\ UNCHANGED <<current_document, document_source, vector_store,
                       embeddings, temp_files, last, ui, cli>>

\* task3_complete.py:249-265: the summaries, the question about another role
\* and the recursive call of main
T3Again ==
    \E answer \in AnotherRoleInputs :
        /\ t3.pc = "again"
        /\ wants_another_role(answer) => t3.round < MaxRounds
        /\ t3' = IF wants_another_role(answer)
                 THEN [t3 EXCEPT !.pc = "start", !.round = @ + 1,
                                 !.answer = answer,
                                 !.shown = "INTERVIEW QUESTION GENERATION COMPLETED SUCCESSFULLY"]
                 ELSE [t3 EXCEPT !.pc = "done", !.answer = answer,
                                 !.shown = "INTERVIEW QUESTION GENERATION COMPLETED SUCCESSFULLY"]
        /\ UNCHANGED <<current_document, document_source, vector_store,
                       embeddings, temp_files, last, ui, cli>>

NextT3 ==
    \/ T3Connect
    \/ T3GetUserInput
    \/ T3Behavioral
    \/ T3Technical
    \/ T3Advanced
    \/ T3Again

SpecT3 == Init /\ [][NextT3]_vars

\* the requests a round makes, in order
ExpectedRequests ==
    IF t3.company_context # "" THEN <<"behavioral", "technical", "advanced">>
    ELSE <<"behavioral", "technical">>

\* the number of requests made when main stands at pc
RequestsMadeAt(pc) ==
    CASE pc = "behavioral" -> 0
      [] pc = "technical"  -> 1
      [] pc = "advanced"   -> 2
      [] pc = "again"      -> Len(ExpectedRequests)

\* the requests of the round are the first ones of ExpectedRequests, each a
\* single call of generate_content, whatever the earlier ones returned
C20_RequestsInOrder ==
    t3.pc \in {"behavioral", "technical", "advanced", "again"}
    => /\ Len(t3.requests) = RequestsMadeAt(t3.pc)
       /\ \A i \in 1..Len(t3.requests) :
              /\ t3.requests[i].kind = ExpectedRequests[i]
              /\ t3.requests[i].calls = 1

\* a step from the question about another role starts a round exactly when
\* the answer, trimmed and lower-cased, is "y" or "yes"; no other step does
C20_AnotherRoundOnYes ==
    /\ t3.pc = "again"
       => LET yes == Lower(Strip(t3'.answer)) \in {"y", "yes"}
          IN  /\ yes => (t3'.pc = "start" /\ t3'.round = t3.round + 1)
              /\ ~yes => (t3'.pc = "done" /\ t3'.round = t3.round)
    /\ t3.pc # "again" => t3'.round = t3.round

\* C20: in each round the behavioral, the technical and, exactly when the
\* company context is non-empty, the advanced request are made in this order,
\* each at most once, whether or not an earlier one failed; a further round
\* starts exactly when the user answers "y" or "yes" (trimmed, any case).
C20_RoundOfRequests ==
    []C20_RequestsInOrder /\ [][C20_AnotherRoundOnYes]_vars

C20_Witness ==
    /\ t3.round = 2
    /\ t3.answer = " YES "
    /\ t3.pc = "again"
    /\ t3.company_context = "fintech company"
    /\ Len(t3.requests) = 3
    /\ t3.requests[1].failed
    /\ ~t3.requests[2].failed
    /\ t3.requests[3].failed

(***************************************************************************)
(* The sentiment CLI, Task 1/sentiment_cli.py.  env is what the model      *)
(* files and the classifier do during one call of predict_sentiment: paths *)
(* are the model directories on disk.  Confidences are in percent.         *)
(***************************************************************************)
DEFAULT_MODEL_PATH == "imdb_sentiment_mode\\imdb_sentiment_model"

ALT_MODEL_PATH == "imdb_sentiment_model"

\* sentiment_cli.py:45-109
predict_sentiment(text, model_path, env) ==
    IF model_path \notin env.paths /\ ALT_MODEL_PATH \notin env.paths
    THEN [raised |-> FALSE, sentiment |-> "Error", confidence |-> 0, msg |-> ""]
    ELSE IF env.load_fails
    THEN [raised |-> FALSE, sentiment |-> "Error", confidence |-> 0, msg |-> ""]
    ELSE IF env.infer_raises
    THEN [raised |-> TRUE, sentiment |-> "none", confidence |-> 0,
          msg |-> "input too long"]
    ELSE [raised |-> FALSE,
          sentiment |-> IF env.predicted_class = 1 THEN "Positive" ELSE "Negative",
          confidence |-> env.confidence, msg |-> ""]

PredictEnvs ==
    {[paths |-> {}, load_fails |-> FALSE, infer_raises |-> FALSE,
      predicted_class |-> 0, confidence |-> 0],
     [paths |-> {ALT_MODEL_PATH}, load_fails |-> TRUE, infer_raises |-> FALSE,
      predicted_class |-> 0, confidence |-> 0],
     [paths |-> {ALT_MODEL_PATH}, load_fails |-> FALSE, infer_raises |-> TRUE,
      predicted_class |-> 0, confidence |-> 0],
     [paths |-> {ALT_MODEL_PATH}, load_fails |-> FALSE, infer_raises |-> FALSE,
      predicted_class |-> 1, confidence |-> 97],
     [paths |-> {ALT_MODEL_PATH}, load_fails |-> FALSE, infer_raises |-> FALSE,
      predicted_class |-> 0, confidence |-> 61]}

\* what a prediction leaves on the screen: the sentiment, or the error caught
Outcome(r) == IF r.raised THEN "Error: " \o r.msg ELSE r.sentiment

RECURSIVE analyze_lines_stopping(_, _, _)
\* the loop with the try around it instead of inside it: the first exception
\* of predict_sentiment ends it
analyze_lines_stopping(reviews, envs, i) ==
    IF i > Len(reviews) THEN [numbers |-> <<>>, predicted |-> <<>>, results |-> <<>>]
    ELSE LET review == Strip(reviews[i])
             r      == predict_sentiment(review, DEFAULT_MODEL_PATH, envs[i])
             rest   == IF review # "" /\ r.raised
                       THEN [numbers |-> <<>>, predicted |-> <<>>, results |-> <<>>]
                       ELSE analyze_lines_stopping(reviews, envs, i + 1)
         IN  IF review = "" THEN rest
             ELSE [numbers |-> <<i>> \o rest.numbers,
                   predicted |-> <<review>> \o rest.predicted,
                   results |-> <<Outcome(r)>> \o rest.results]

RECURSIVE analyze_lines(_, _, _)
\* sentiment_cli.py:169-183, the loop over the lines from line i on; envs[i]
\* is what predict_sentiment meets on line i
analyze_lines(reviews, envs, i) ==
    IF i > Len(reviews) THEN [numbers |-> <<>>, predicted |-> <<>>, results |-> <<>>]
    ELSE LET review == Strip(reviews[i])
             rest   == analyze_lines(reviews, envs, i + 1)
         IN  IF review = "" THEN rest
             ELSE [numbers |-> <<i>> \o rest.numbers,
                   predicted |-> <<review>> \o rest.predicted,
                   results |-> <<Outcome(predict_sentiment(review, DEFAULT_MODEL_PATH,
                                                           envs[i]))>>
                               \o rest.results]

\* sentiment_cli.py:156-187; disk is the file at file_path
analyze_from_file(file_path, disk, envs) ==
    IF ~disk.exists
    THEN [numbers |-> <<>>, predicted |-> <<>>, results |-> <<>>,
          shown |-> "File not found: " \o file_path]
    ELSE IF ~disk.readable
    THEN [numbers |-> <<>>, predicted |-> <<>>, results |-> <<>>,
          shown |-> "Error reading file: bad encoding"]
    ELSE IF Len(disk.lines) = 0
    THEN [numbers |-> <<>>, predicted |-> <<>>, results |-> <<>>,
          shown |-> "No reviews found in file " \o file_path]
    ELSE LET r == analyze_lines(disk.lines, envs, 1)
         IN  [numbers |-> r.numbers, predicted |-> r.predicted, results |-> r.results,
              shown |-> "Analyzing reviews from " \o file_path]

\* bool(value) of a flag: None and the empty string count as not given
Given(value) == value # "None" /\ value # ""

\* sentiment_cli.py:197-208, the branch __main__ takes
mode(file, review) ==
    IF Given(file) THEN "file"
    ELSE IF Given(review) THEN "review"
    ELSE "interactive"

\* exit compared as typed
is_exit_exact(line) == line = "exit"

\* sentiment_cli.py:121 and 151
is_exit(line) == Lower(line) = "exit"

\* values of --file and --review
FileArgs == {"None", "", "reviews.txt"}

ReviewArgs == {"None", "", "good film"}

ModelArgs == {DEFAULT_MODEL_PATH, "my_model"}

\* lines of a file of reviews
FileLines == {"good\n", "\n", "  bad  "}

\* the file --file names: missing, unreadable, or its lines
DiskFiles ==
    {[exists |-> FALSE, readable |-> FALSE, lines |-> <<>>],
     [exists |-> TRUE, readable |-> FALSE, lines |-> <<>>]}
    \cup
    {[exists |-> TRUE, readable |-> TRUE, lines |-> ls] :
        ls \in SeqsUpTo(FileLines, MaxLines)}

\* what predict_sentiment meets on the lines of a file
LineEnvs == {e \in PredictEnvs : e.paths # {} /\ ~e.load_fails /\ e.predicted_class = 0}

\* what the user types at the review prompt and at the continue prompt
ReviewLines == {"exit", "EXIT", "Exit", "", "   ", " exit", "great movie"}

ContinueLines == {"", "exit", "eXit", "no", "exit "}

\* sentiment_cli.py:197-198
CLIFileMode ==
    \E file \in FileArgs, review \in ReviewArgs, disk \in DiskFiles :
    \E envs \in [1..Len(disk.lines) -> LineEnvs] :
        /\ cli.pc = "start"
        /\ mode(file, review) = "file"
        /\ \E r \in {analyze_from_file(file, disk, envs)} :
               cli' = [cli EXCEPT !.pc = "done", !.mode = "file", !.file = file,
                                  !.review = review, !.disk = disk,
                                  !.ran = Len(r.predicted) > 0,
                                  !.numbers = r.numbers,
                                  !.predicted = r.predicted,
                                  !.results = r.results, !.shown = r.shown]
        /\ UNCHANGED <<current_document, document_source, vector_store,
                       embeddings, temp_files, last, ui, t3>>

\* sentiment_cli.py:199-206; an exception of predict_sentiment ends the process
CLIReviewMode ==
    \E file \in FileArgs, review \in ReviewArgs, model \in ModelArgs,
       env \in PredictEnvs :
        /\ cli.pc = "start"
        /\ mode(file, review) = "review"
        /\ \E r \in {predict_sentiment(review, model, env)} :
               cli' = [cli EXCEPT !.pc = IF r.raised THEN "crashed" ELSE "done",
                                  !.mode = "review", !.file = file,
                                  !.review = review, !.ran = TRUE,
                                  !.predicted = <<review>>,
                                  !.results = IF r.raised THEN <<>>
                                              ELSE <<r.sentiment>>,
                                  !.shown = IF r.raised THEN "Traceback"
                                            ELSE r.sentiment \o " SENTIMENT"]
        /\ UNCHANGED <<current_document, document_source, vector_store,
                       embeddings, temp_files, last, ui, t3>>

\* sentiment_cli.py:207-208 and 113-117: analyze_single_review shows its banner
CLIInteractive ==
    \E file \in FileArgs, review \in ReviewArgs :
        /\ cli.pc = "start"
        /\ mode(file, review) = "interactive"
        /\ cli' = [cli EXCEPT !.pc = "review_prompt", !.mode = "interactive",
                              !.file = file, !.review = review,
                              !.shown = "Enter your movie review below (or type 'exit' to quit):"]
        /\ UNCHANGED <<current_document, document_source, vector_store,
                       embeddings, temp_files, last, ui, t3>>

\* sentiment_cli.py:120-149: a line typed at the review prompt
CLIReviewPrompt ==
    \E review \in ReviewLines, env \in PredictEnvs :
        /\ cli.pc = "review_prompt"
        /\ (~is_exit(review) /\ Strip(review) # "")
           => Len(cli.predicted) < MaxPredictions
        /\ LET typed == [cli EXCEPT !.at = "review", !.input = review]
           IN  IF is_exit(review)
               THEN cli' = [typed EXCEPT !.pc = "done", !.ran = FALSE,
                                         !.shown = "Goodbye!"]
               ELSE IF Strip(review) = ""
               THEN cli' = [typed EXCEPT !.pc = "review_prompt", !.ran = FALSE,
                                !.shown = "Please enter a movie review to analyze."]
               ELSE \E r \in {predict_sentiment(review, DEFAULT_MODEL_PATH, env)} :
                        cli' = [typed EXCEPT
                                   !.pc = "continue_prompt", !.ran = TRUE,
                                   !.predicted = Append(@, review),
                                   !.results = Append(@, Outcome(r)),
                                   !.shown = "Press Enter to continue or type 'exit' to quit..."]
        /\ UNCHANGED <<current_document, document_source, vector_store,
                       embeddings, temp_files, last, ui, t3>>

\* sentiment_cli.py:150-153: a line typed at the continue prompt
CLIContinuePrompt ==
    \E line \in ContinueLines :
        /\ cli.pc = "continue_prompt"
        /\ cli' = IF is_exit(line)
                  THEN [cli EXCEPT !.pc = "done", !.at = "continue",
                                   !.input = line, !.ran = FALSE,
                                   !.shown = "Goodbye!"]
                  ELSE [cli EXCEPT !.pc = "review_prompt", !.at = "continue",
                                   !.input = line, !.ran = FALSE,
                                   !.shown = "Enter your movie review below (or type 'exit' to quit):"]
        /\ UNCHANGED <<current_document, document_source, vector_store,
                       embeddings, temp_files, last, ui, t3>>

NextCLI ==
    \/ CLIFileMode
    \/ CLIReviewMode
    \/ CLIInteractive
    \/ CLIReviewPrompt
    \/ CLIContinuePrompt

SpecCLI == Init /\ [][NextCLI]_vars

InLoop(c) == c.pc \in {"review_prompt", "continue_prompt"}

\* the CLI started with neither --file nor --review is in the interactive loop
\* or has left it
C18_NoFlagsInteractive ==
    (cli.pc # "start" /\ cli.file = "None" /\ cli.review = "None")
    => /\ cli.mode = "interactive"
       /\ InLoop(cli) \/ cli.pc = "done"

\* a step of the loop: the loop is left only on "exit" in any case; "exit" at
\* the review prompt leaves it and a blank review prompts again, both without
\* a call of predict_sentiment
C18_LoopStep ==
    InLoop(cli)
    => /\ ~InLoop(cli')
          => (cli'.pc = "done" /\ Lower(cli'.input) = "exit")
       /\ (cli.pc = "review_prompt" /\ Lower(cli'.input) = "exit")
          => (cli'.pc = "done" /\ cli'.predicted = cli.predicted /\ ~cli'.ran)
       /\ (cli.pc = "review_prompt" /\ Strip(cli'.input) = "")
          => (cli'.pc = "review_prompt" /\ cli'.predicted = cli.predicted
              /\ ~cli'.ran)
       /\ (cli.pc = "continue_prompt" /\ Lower(cli'.input) = "exit")
          => cli'.pc = "done"

\* C18: the CLI started with neither --file nor --review enters the
\* interactive loop; the loop ends only on "exit" (in any case) typed at the
\* review prompt or at the continue prompt; "exit" at the review prompt ends
\* it without a prediction, and a blank review prompts again without one.
C18_InteractiveLoop ==
    []C18_NoFlagsInteractive /\ [][C18_LoopStep]_vars

C18_Witness ==
    /\ cli.mode = "interactive"
    /\ cli.file = "None" /\ cli.review = "None"
    /\ cli.pc = "done"
    /\ cli.at = "review"
    /\ cli.input = "EXIT"
    /\ cli.predicted = <<" exit", "great movie">>

\* the numbers of the non-blank lines of a file, as a set
NonBlank(lines) == {i \in 1..Len(lines) : Strip(lines[i]) # ""}

\* the file --file named was read
FileRead(c) == c.disk.exists /\ c.disk.readable

\* each non-blank line was handed to predict_sentiment exactly once, no blank
\* line was, the calls were in file order, and each call left an outcome
C21_OncePerNonBlankLine ==
    (cli.mode = "file" /\ FileRead(cli))
    => /\ \A i \in 1..Len(cli.disk.lines) :
              Cardinality({k \in 1..Len(cli.numbers) : cli.numbers[k] = i})
              = IF i \in NonBlank(cli.disk.lines) THEN 1 ELSE 0
       /\ \A k \in 1..Len(cli.numbers) :
              /\ cli.numbers[k] \in 1..Len(cli.disk.lines)
              /\ k > 1 => cli.numbers[k - 1] < cli.numbers[k]
       /\ Len(cli.predicted) = Len(cli.numbers)
       /\ Len(cli.results) = Len(cli.numbers)
       /\ \A k \in 1..Len(cli.numbers) :
              cli.predicted[k] = Strip(cli.disk.lines[cli.numbers[k]])

\* a file that is missing or cannot be read gives a message and no prediction
C21_NoFileNoPrediction ==
    (cli.mode = "file" /\ ~FileRead(cli))
    => /\ cli.numbers = <<>> /\ cli.predicted = <<>> /\ cli.results = <<>>
       /\ ~cli.ran
       /\ IF cli.disk.exists
          THEN SubSeq(cli.shown, 1, 20) = "Error reading file: "
          ELSE cli.shown = "File not found: " \o cli.file

\* C21: analyze_from_file calls predict_sentiment exactly once for every
\* non-blank line of the file, in file order, and never for a blank line; an
\* exception of the prediction of one line leaves its error as that line's
\* outcome and the following lines are still processed; a missing or
\* unreadable file gives an error message and no prediction.
C21_FileAnalysis ==
    C21_OncePerNonBlankLine /\ C21_NoFileNoPrediction

C21_Witness ==
    /\ cli.mode = "file"
    /\ cli.pc = "done"
    /\ cli.disk.lines = <<"good\n", "\n", "  bad  ">>
    /\ cli.numbers = <<1, 3>>
    /\ cli.predicted = <<"good", "bad">>
    /\ cli.results = <<"Error: input too long", "Negative">>

====
